---------------------------- MODULE Spec2Model ----------------------------
(***************************************************************************)
(* Model of the chunking-and-retrieval engine of the SAP RAG system:       *)
(*   - DocumentProcessor (src/src/document_processor/processor.py)         *)
(*   - FAISSVectorStore  (src/src/vector_store/faiss_store.py)             *)
(*   - ChromaVectorStore (src/src/vector_store/chroma_store.py)            *)
(*   - SAPRAGSystem      (src/src/rag_engine/rag_system.py)                *)
(*                                                                         *)
(* Texts are sequences of one-character strings.  Positions, `start` and   *)
(* `end` are Python's 0-based integers.  A fraction is the pair            *)
(* <<numerator, denominator>>.                                             *)
(***************************************************************************)
EXTENDS Integers, Sequences, FiniteSets, TLC

VARIABLES
    \* ---- DocumentProcessor ----
    chunk_size,      \* self.chunk_size
    chunk_overlap,   \* self.chunk_overlap
    text,            \* the argument of the running _split_text call
    start,           \* the cursor of _split_text
    chunks,          \* the list _split_text is building / has returned
    spans,           \* for each emitted chunk, the [from, to) positions of text it was sliced from
    iters,           \* loop iterations made by the running _split_text call
    spc,             \* where _split_text is: "idle", "loop", "returned"
    \* ---- DocumentProcessor.process_directory ----
    directory,       \* the files of the directory, in the order glob lists them
    pending,         \* the files the two for loops of process_directory have still to visit
    all_chunks,      \* the list process_directory is building / has returned
    doc_results,     \* what each process_document call made so far returned or raised
    dpc,             \* where process_directory is: "idle", "loop", "returned", "raised"
    \* ---- SAPRAGSystem and its vector store ----
    vector_store_type,  \* SAPRAGSystem.vector_store_type: "chroma" builds a ChromaVectorStore, anything else a FAISSVectorStore
    alive,           \* the vector store object exists (its constructor returned)
    index,           \* FAISSVectorStore.index: the rows of the IndexFlatL2
    documents,       \* FAISSVectorStore.documents
    metadatas,       \* FAISSVectorStore.metadatas
    file_index,      \* persist_directory/faiss_index.bin
    file_meta,       \* persist_directory/metadata.pkl
    collection,      \* the records of the Chroma collection, in insertion order
    last,            \* the last call made: its name, whether it raised, what it returned
    clean,           \* no constructor, add_documents, save_index or load_index call has raised so far
                     \* and every add_documents got as many vectors as chunks
    added,           \* chunks given to the add_documents calls that kept the contract since the
                     \* index was last created empty; -1 once load_index replaced the index
    faults,          \* calls so far that broke the contract of add_documents, and saves that failed
    inflight         \* for each thread, the FAISSVectorStore.query call it is running, and where in it

splitVars == <<chunk_size, chunk_overlap, text, start, chunks, spans, iters, spc>>

dirVars == <<directory, pending, all_chunks, doc_results, dpc>>

storeVars == <<vector_store_type, alive, index, documents, metadatas,
               file_index, file_meta, collection, last, clean, added, faults, inflight>>

vars == <<splitVars, dirVars, storeVars>>

-----------------------------------------------------------------------------
(* Bounds of the model *)

MaxLen == 6        \* longest text given to _split_text
MaxChunk == 5      \* largest chunk_size
MaxOverlap == 2    \* largest chunk_overlap
MaxIter == 8       \* loop iterations followed in one _split_text call
MaxThreads == 2    \* threads that call FAISSVectorStore.query at the same time

\* Texts are built from two alphabets: punctuation and both kinds of whitespace
\* (every separator of _split_text that ends a line or a sentence), and words
\* with spaces and full stops.
Alphabet == {".", " ", "\n"}
WordAlphabet == {"a", " ", "."}

Whitespace == {" ", "\n", "\t"}

RECURSIVE SeqsUpTo(_, _)
SeqsUpTo(S, n) ==
    IF n = 0 THEN {<<>>}
    ELSE LET shorter == SeqsUpTo(S, n - 1)
         IN  shorter \cup {Append(s, c) : s \in {x \in shorter : Len(x) = n - 1}, c \in S}

Texts == SeqsUpTo(Alphabet, MaxLen) \cup SeqsUpTo(WordAlphabet, MaxLen)

Min(S) == CHOOSE x \in S : \A y \in S : x <= y
Max(S) == CHOOSE x \in S : \A y \in S : x >= y

-----------------------------------------------------------------------------
(* Python string primitives used by _split_text *)

\* How Python turns a slice bound into a position of a string of length n.
AdjustIndex(i, n) ==
    IF i < 0 THEN (IF i + n < 0 THEN 0 ELSE i + n)
    ELSE (IF i > n THEN n ELSE i)

\* The [from, to) positions that t[s:e] takes its characters from.
SliceRange(t, s, e) == <<AdjustIndex(s, Len(t)), AdjustIndex(e, Len(t))>>

\* t[s:e]
Slice(t, s, e) ==
    LET r == SliceRange(t, s, e)
    IN  IF r[1] >= r[2] THEN <<>> ELSE SubSeq(t, r[1] + 1, r[2])

\* sep occurs in t at position p (0-based)
MatchAt(t, sep, p) == \A j \in 1..Len(sep) : t[p + j] = sep[j]

\* t.rfind(sep, s, e): the highest position of an occurrence of sep inside t[s:e], else -1
RFind(t, sep, s, e) ==
    LET r == SliceRange(t, s, e)
        found == {p \in r[1]..(r[2] - Len(sep)) : MatchAt(t, sep, p)}
    IN  IF found = {} THEN -1 ELSE Max(found)

\* a strip that removes the leading whitespace only
StripLeading(t) ==
    LET solid == {i \in 1..Len(t) : t[i] \notin Whitespace}
    IN  IF solid = {} THEN <<>> ELSE SubSeq(t, Min(solid), Len(t))

\* t.strip()
Strip(t) ==
    LET solid == {i \in 1..Len(t) : t[i] \notin Whitespace}
    IN  IF solid = {} THEN <<>> ELSE SubSeq(t, Min(solid), Max(solid))

-----------------------------------------------------------------------------
(* DocumentProcessor._split_text, one loop iteration at a time *)

\* the separators of line 126, in the order they are tried
Separators == << <<"\n", "\n">>, <<"\n">>, <<".", " ">>, <<"!", " ">>, <<"?", " ">> >>

\* lines 126-130: the end after the first separator that rfind finds, else the tentative end
SnapEnd(t, s, e) ==
    LET hits == {i \in 1..Len(Separators) : RFind(t, Separators[i], s, e) # -1}
    IN  IF hits = {} THEN e
        ELSE LET sep == Separators[Min(hits)]
             IN  RFind(t, sep, s, e) + Len(sep)

\* an end that is snapped to a separator for the last chunk too
ChunkEndAlwaysSnapped(t, cs, s) == SnapEnd(t, s, s + cs)

\* lines 121-130: the end of the chunk that starts at s
ChunkEnd(t, cs, s) ==
    LET e == s + cs
    IN  IF e < Len(t) THEN SnapEnd(t, s, e) ELSE e

\* line 138: the next cursor
NextStart(t, ov, e) == IF e < Len(t) THEN e - ov ELSE e

\* DocumentProcessor.__init__ stores its arguments as they are given.
ProcessorInit ==
    /\ chunk_size \in 1..MaxChunk
    /\ chunk_overlap \in 0..MaxOverlap

\* _split_text is called: lines 116-117
SplitBegin(t) ==
    /\ text' = t
    /\ chunks' = <<>>
    /\ spans' = <<>>
    /\ start' = 0
    /\ iters' = 0
    /\ spc' = "loop"
    /\ UNCHANGED <<chunk_size, chunk_overlap>>

\* _split_text called on its own, with any text
SplitCall ==
    /\ spc = "idle"
    /\ dpc = "idle"
    /\ \E t \in Texts : SplitBegin(t)
    /\ UNCHANGED dirVars
    /\ UNCHANGED storeVars

\* one iteration of the while loop: lines 119-138
SplitIterate ==
    /\ spc = "loop"
    /\ start < Len(text)
    /\ iters < MaxIter
    /\ LET e == ChunkEnd(text, chunk_size, start)
           chunk == Strip(Slice(text, start, e))
       IN  /\ chunks' = IF chunk # <<>> THEN Append(chunks, chunk) ELSE chunks
           /\ spans' = IF chunk # <<>> THEN Append(spans, SliceRange(text, start, e)) ELSE spans
           /\ start' = NextStart(text, chunk_overlap, e)
    /\ iters' = iters + 1
    /\ UNCHANGED <<chunk_size, chunk_overlap, text, spc>>
    /\ UNCHANGED dirVars
    /\ UNCHANGED storeVars

\* the loop condition fails: line 140
SplitReturn ==
    /\ spc = "loop"
    /\ ~(start < Len(text))
    /\ spc' = "returned"
    /\ UNCHANGED <<chunk_size, chunk_overlap, text, start, chunks, spans, iters>>
    /\ UNCHANGED dirVars
    /\ UNCHANGED storeVars

\* no _split_text call is running
SplitIdle ==
    /\ text = <<>>
    /\ start = 0
    /\ chunks = <<>>
    /\ spans = <<>>
    /\ iters = 0
    /\ spc = "idle"

\* no process_directory call is running, on an empty directory
DirIdle ==
    /\ directory = <<>>
    /\ pending = <<>>
    /\ all_chunks = <<>>
    /\ doc_results = <<>>
    /\ dpc = "idle"

Threads == 1..MaxThreads

\* a thread that is in no query call
IdleQuery == [pc |-> "idle", q |-> <<>>, k |-> 0, found |-> <<>>, out |-> <<>>]

NoQueries == [t \in Threads |-> IdleQuery]

\* no vector store has been built
StoreIdle ==
    /\ vector_store_type = "chroma"
    /\ alive = FALSE
    /\ index = <<>>
    /\ documents = <<>>
    /\ metadatas = <<>>
    /\ file_index = [exists |-> FALSE, rows |-> <<>>]
    /\ file_meta = [exists |-> FALSE, documents |-> <<>>, metadatas |-> <<>>]
    /\ collection = <<>>
    /\ last = [op |-> "none", raised |-> FALSE, value |-> <<>>]
    /\ clean = TRUE
    /\ added = 0
    /\ faults = 0
    /\ inflight = NoQueries

SplitInit ==
    /\ ProcessorInit
    /\ SplitIdle
    /\ DirIdle
    /\ StoreIdle

SplitNext == SplitCall \/ SplitIterate \/ SplitReturn

SplitSpec == SplitInit /\ [][SplitNext]_vars

-----------------------------------------------------------------------------
(* The document loaders (src/src/document_processor/loaders.py) as           *)
(* process_document sees them.  A file is a record: its name, its extension, *)
(* whether reading it raises, and its pages (PDF) or paragraphs (DOCX).      *)

MaxFiles == 3      \* most files in the directory

DocsDir == "docs"

FilePool ==
    { [name |-> "a.pdf", ext |-> ".pdf", corrupt |-> FALSE,
       parts |-> << <<".", " ", ".">>, <<".">> >>],
      [name |-> "b.pdf", ext |-> ".pdf", corrupt |-> FALSE,
       parts |-> << <<"a", " ", "a">> >>],
      [name |-> "c.docx", ext |-> ".docx", corrupt |-> FALSE,
       parts |-> << <<"a", "a">>, <<" ">>, <<"a", ".">> >>],
      [name |-> "blank.pdf", ext |-> ".pdf", corrupt |-> FALSE,
       parts |-> << <<" ">> >>],
      [name |-> "bad.pdf", ext |-> ".pdf", corrupt |-> TRUE,
       parts |-> <<>>],
      [name |-> "notes.txt", ext |-> ".txt", corrupt |-> FALSE,
       parts |-> << <<"a">> >>] }

FileNamed(n) == CHOOSE f \in FilePool : f.name = n

\* a directory: distinct files, in the order the file system lists them
Directories ==
    {d \in SeqsUpTo(FilePool, MaxFiles) :
        \A i, j \in 1..Len(d) : i # j => d[i] # d[j]}

\* loader.load() raises (PDFLoader.load line 63, DOCXLoader.load line 99)
LoadRaises(f) == f.corrupt

\* doc_data['metadata'] (PDFLoader.load lines 40-45, DOCXLoader.load lines 77-81)
LoaderMetadata(f) ==
    IF f.ext = ".pdf"
    THEN [source |-> <<DocsDir, f.name>>, filename |-> f.name,
          num_pages |-> Len(f.parts), type |-> "pdf"]
    ELSE [source |-> <<DocsDir, f.name>>, filename |-> f.name, type |-> "docx"]

IsNotBlank(t) == Strip(t) # <<>>

\* the texts of doc_data['pages'] (every page) or doc_data['paragraphs']
\* (DOCXLoader.load line 86 keeps the paragraphs that are not blank)
LoadedTexts(f) ==
    IF f.ext = ".pdf" THEN f.parts ELSE SelectSeq(f.parts, IsNotBlank)

RECURSIVE JoinLines(_)
\* "\n\n".join(parts)
JoinLines(parts) ==
    IF parts = <<>> THEN <<>>
    ELSE IF Len(parts) = 1 THEN parts[1]
    ELSE parts[1] \o <<"\n", "\n">> \o JoinLines(Tail(parts))

\* _extract_full_text: lines 95-104
ExtractFullText(f) == JoinLines(LoadedTexts(f))

\* {**m, **e}
MergeDict(m, e) ==
    [k \in DOMAIN m \cup DOMAIN e |-> IF k \in DOMAIN e THEN e[k] ELSE m[k]]

\* a stamping that counts as it goes: total_chunks is the number of chunks so far
StampChunksRunning(cs, meta) ==
    [i \in 1..Len(cs) |->
        [text |-> cs[i],
         metadata |-> MergeDict(meta, [chunk_index |-> i - 1, total_chunks |-> i])]]

\* process_document lines 51-61: the chunks with their metadata
StampChunks(cs, meta) ==
    [i \in 1..Len(cs) |->
        [text |-> cs[i],
         metadata |-> MergeDict(meta, [chunk_index |-> i - 1, total_chunks |-> Len(cs)])]]

\* directory.glob("*" + ext)
Glob(d, ext) == SelectSeq(d, LAMBDA f : f.ext = ext)

\* line 82
SupportedExtensions == <<".pdf", ".docx">>

-----------------------------------------------------------------------------
(* DocumentProcessor.process_directory, one file at a time; the file's text  *)
(* goes through the _split_text loop above.                                  *)

\* lines 76-85: the call, and the files the two loops will visit
ProcessDirectoryCall ==
    /\ dpc = "idle"
    /\ spc = "idle"
    /\ pending' = Glob(directory, SupportedExtensions[1]) \o Glob(directory, SupportedExtensions[2])
    /\ all_chunks' = <<>>
    /\ doc_results' = <<>>
    /\ dpc' = "loop"
    /\ UNCHANGED directory
    /\ UNCHANGED splitVars
    /\ UNCHANGED storeVars

\* a loop without the try/except: the exception of process_document ends the call
DocumentFailsAbort ==
    /\ dpc' = "raised"
    /\ doc_results' = Append(doc_results,
            [file |-> Head(pending).name, raised |-> TRUE, chunks |-> <<>>])
    /\ UNCHANGED <<directory, pending, all_chunks>>

\* lines 89-90: the exception of process_document is logged, the loop goes on
DocumentFails ==
    /\ pending' = Tail(pending)
    /\ doc_results' = Append(doc_results,
            [file |-> Head(pending).name, raised |-> TRUE, chunks |-> <<>>])
    /\ UNCHANGED <<directory, all_chunks, dpc>>

\* line 87 and process_document lines 38-48: load the next file, extract its
\* text and call _split_text on it
ProcessDocumentLoad ==
    /\ dpc = "loop"
    /\ spc = "idle"
    /\ pending # <<>>
    /\ IF LoadRaises(Head(pending))
       THEN DocumentFails /\ UNCHANGED splitVars
       ELSE SplitBegin(ExtractFullText(Head(pending))) /\ UNCHANGED dirVars
    /\ UNCHANGED storeVars

\* process_document lines 51-64 and line 88: stamp the chunks, extend all_chunks
ProcessDocumentStamp ==
    /\ dpc = "loop"
    /\ spc = "returned"
    /\ LET processed == StampChunks(chunks, LoaderMetadata(Head(pending)))
       IN  /\ all_chunks' = all_chunks \o processed
           /\ doc_results' = Append(doc_results,
                   [file |-> Head(pending).name, raised |-> FALSE, chunks |-> processed])
    /\ pending' = Tail(pending)
    /\ spc' = "idle"
    /\ UNCHANGED <<directory, dpc>>
    /\ UNCHANGED <<chunk_size, chunk_overlap, text, start, chunks, spans, iters>>
    /\ UNCHANGED storeVars

\* lines 92-93
ProcessDirectoryReturn ==
    /\ dpc = "loop"
    /\ spc = "idle"
    /\ pending = <<>>
    /\ dpc' = "returned"
    /\ UNCHANGED <<directory, pending, all_chunks, doc_results>>
    /\ UNCHANGED splitVars
    /\ UNCHANGED storeVars

DirInit ==
    /\ ProcessorInit
    /\ SplitIdle
    /\ directory \in Directories
    /\ pending = <<>>
    /\ all_chunks = <<>>
    /\ doc_results = <<>>
    /\ dpc = "idle"
    /\ StoreIdle

DirNext ==
    \/ ProcessDirectoryCall
    \/ ProcessDocumentLoad
    \/ SplitIterate
    \/ SplitReturn
    \/ ProcessDocumentStamp
    \/ ProcessDirectoryReturn

DirSpec == DirInit /\ [][DirNext]_vars

-----------------------------------------------------------------------------
(* Inputs of the vector stores: chunks, embedding vectors, queries.          *)
(* Vectors are tuples of small integers, which float32 holds exactly.        *)

MaxRows == 2       \* most rows in the index, most texts in the side tables
MaxBatch == 2      \* most chunks (or vectors) in one add_documents call
MaxTopK == 3       \* largest top_k
MaxFaults == 1     \* most calls that break the contract of add_documents, plus failed saves

\* FAISSVectorStore.embedding_dim (768 by default; the model binds the index to 1)
EmbeddingDim == 1

VecPool == {<<0>>, <<1>>}

\* vectors of another dimension than the index's
WrongDimPool == {<<0, 0>>}

QueryPool == VecPool \cup WrongDimPool

\* two chunks as process_document returns them, and one that lacks 'metadata'
ChunkA == StampChunks(<< <<".">> >>, LoaderMetadata(FileNamed("a.pdf")))[1]
ChunkB == StampChunks(<< <<"a", " ", "a">> >>, LoaderMetadata(FileNamed("b.pdf")))[1]
ChunkNoMetadata == [text |-> <<"a">>]

GoodChunks == {ChunkA, ChunkB}
ChunkPool == GoodChunks \cup {ChunkNoMetadata}

\* the chunk lists and the 2-D arrays (all rows of one dimension) given to add_documents;
\* the empty array is the 1-D np.array([]) that generate_embeddings returns for no text
ChunkLists == SeqsUpTo(ChunkPool, MaxBatch)
EmbeddingArrays == SeqsUpTo(VecPool, MaxBatch) \cup SeqsUpTo(WrongDimPool, MaxBatch)

IsChunk(c) == {"text", "metadata"} \subseteq DOMAIN c

\* EmbeddingsGenerator: the model's vector of a text (a function of the text alone)
Embed(t) == IF \E i \in 1..Len(t) : t[i] = "a" THEN <<1>> ELSE <<0>>

\* generate_embeddings(texts): one vector per text, in the order of the texts
GenerateEmbeddings(texts) == [i \in 1..Len(texts) |-> Embed(texts[i])]

\* rag_system.py line 83: texts = [chunk['text'] for chunk in chunks]
ChunkTexts(cs) == [i \in 1..Len(cs) |-> cs[i].text]

\* the arguments the contract of add_documents allows
ValidAdd(cs, es) ==
    /\ Len(cs) = Len(es)
    /\ es # <<>>
    /\ \A i \in 1..Len(es) : Len(es[i]) = EmbeddingDim
    /\ \A j \in 1..Len(cs) : IsChunk(cs[j])

\* the calls of add_documents: those that keep the contract pass the embeddings of
\* the chunks' texts, as SAPRAGSystem does; the others pass any array
AddInputs ==
    {in \in ChunkLists \X EmbeddingArrays :
        ValidAdd(in[1], in[2]) => in[2] = GenerateEmbeddings(ChunkTexts(in[1]))}

-----------------------------------------------------------------------------
(* FAISSVectorStore (src/src/vector_store/faiss_store.py).  A row of the     *)
(* index, a text and a metadata each carry `src`, which is not program       *)
(* state: <<n, i>> says the entry came from element i of the add_documents   *)
(* call that found n rows in the index.                                      *)

\* embeddings.astype('float32')
AsFloat32(v) == v

\* seq[i] for a Python index i (negative indexes count from the end)
PyInRange(seq, i) == (i >= 0 /\ i < Len(seq)) \/ (i < 0 /\ -i <= Len(seq))
PyAt(seq, i) == IF i >= 0 THEN seq[i + 1] ELSE seq[Len(seq) + i + 1]

\* the in-memory state of a store
Store(ix, docs, metas) == [index |-> ix, documents |-> docs, metadatas |-> metas]

\* __init__ lines 39-41, reset lines 169-171
EmptyStore == Store(<<>>, <<>>, <<>>)

\* add_documents with the side tables extended before index.add is called
FaissAddOutcomeTextsFirst(st, cs, es) ==
    LET n0 == Len(st.index)
        grown == Store(st.index,
                    st.documents \o [j \in 1..Len(cs) |-> [text |-> cs[j].text, src |-> <<n0, j>>]],
                    st.metadatas \o [j \in 1..Len(cs) |-> [metadata |-> cs[j].metadata, src |-> <<n0, j>>]])
    IN  IF \E j \in 1..Len(cs) : ~IsChunk(cs[j]) THEN [store |-> st, raised |-> TRUE]
        ELSE IF es = <<>> \/ \E i \in 1..Len(es) : Len(es[i]) # EmbeddingDim
        THEN [store |-> grown, raised |-> TRUE]
        ELSE [store |-> Store(
                st.index \o [i \in 1..Len(es) |-> [vector |-> es[i], src |-> <<n0, i>>]],
                grown.documents, grown.metadatas),
              raised |-> FALSE]

\* add_documents with the texts appended in the reverse order of the chunks
FaissAddOutcomeReversed(st, cs, es) ==
    LET n0 == Len(st.index)
        n == Len(cs)
    IN  IF \/ es = <<>>
           \/ \E i \in 1..Len(es) : Len(es[i]) # EmbeddingDim
           \/ \E j \in 1..n : ~IsChunk(cs[j])
        THEN [store |-> st, raised |-> TRUE]
        ELSE [store |-> Store(
                st.index \o [i \in 1..Len(es) |-> [vector |-> es[i], src |-> <<n0, i>>]],
                st.documents \o [j \in 1..n |-> [text |-> cs[n + 1 - j].text, src |-> <<n0, n + 1 - j>>]],
                st.metadatas \o [j \in 1..n |-> [metadata |-> cs[j].metadata, src |-> <<n0, j>>]]),
              raised |-> FALSE]

\* add_documents lines 54-70: the store after the call, and whether it raised.
\* index.add raises before adding when the array is not 2-D of the index's
\* dimension; the loop stops at the first chunk that lacks a key.
FaissAddOutcome(st, cs, es) ==
    LET n0 == Len(st.index)
        bad == {j \in 1..Len(cs) : ~IsChunk(cs[j])}
        ndocs == IF bad = {} THEN Len(cs)
                 ELSE IF "text" \in DOMAIN cs[Min(bad)] THEN Min(bad) ELSE Min(bad) - 1
        nmetas == IF bad = {} THEN Len(cs) ELSE Min(bad) - 1
    IN  IF es = <<>> \/ \E i \in 1..Len(es) : Len(es[i]) # EmbeddingDim
        THEN [store |-> st, raised |-> TRUE]
        ELSE [store |-> Store(
                st.index \o [i \in 1..Len(es) |-> [vector |-> AsFloat32(es[i]), src |-> <<n0, i>>]],
                st.documents \o [j \in 1..ndocs |-> [text |-> cs[j].text, src |-> <<n0, j>>]],
                st.metadatas \o [j \in 1..nmetas |-> [metadata |-> cs[j].metadata, src |-> <<n0, j>>]]),
              raised |-> bad # {}]

RECURSIVE SumSquares(_, _, _)
SumSquares(u, v, i) ==
    IF i = 0 THEN 0 ELSE (u[i] - v[i]) * (u[i] - v[i]) + SumSquares(u, v, i - 1)

\* the squared L2 distance IndexFlatL2 reports
L2Distance(u, v) == SumSquares(u, v, Len(u))

\* the distance IndexFlatL2.search reports beside a missing neighbour (the largest
\* float32): larger than every distance between two vectors of the model
HugeDistance == 1 + Max({L2Distance(u, v) : u \in QueryPool \ WrongDimPool, v \in VecPool})

RECURSIVE NearestFirst(_, _, _)
\* the rows in `left` as <<distance, row>> pairs (rows 0-based), nearest first,
\* the lower row first among equal distances
NearestFirst(rows, q, left) ==
    IF left = {} THEN <<>>
    ELSE LET d(i) == L2Distance(q, rows[i + 1].vector)
             best == CHOOSE i \in left :
                        \A j \in left : d(i) < d(j) \/ (d(i) = d(j) /\ i <= j)
         IN  <<[distance |-> d(best), idx |-> best]>> \o NearestFirst(rows, q, left \ {best})

\* index.search(query, k): exactly k pairs, the missing neighbours as row -1
Search(rows, q, k) ==
    LET found == NearestFirst(rows, q, 0..(Len(rows) - 1))
    IN  [i \in 1..k |-> IF i <= Len(found) THEN found[i]
                        ELSE [distance |-> HugeDistance, idx |-> -1]]

\* a score that grows with the distance
FaissScoreGrowing(d) == <<1 + d, 1>>

\* line 99: score = 1 / (1 + distance), as the fraction <<numerator, denominator>>
FaissScore(d) == <<1, 1 + d>>

\* a query without the empty-index return of lines 84-86: the search runs always
FaissQueryOutcomeUnguarded(st, q, k) ==
    IF Len(q) # EmbeddingDim THEN [raised |-> TRUE, results |-> <<>>]
    ELSE LET found == Search(st.index, AsFloat32(q), k)
             kept == SelectSeq(found, LAMBDA h : h.idx < Len(st.documents))
         IN  IF \E i \in 1..Len(kept) :
                    ~PyInRange(st.documents, kept[i].idx) \/ ~PyInRange(st.metadatas, kept[i].idx)
             THEN [raised |-> TRUE, results |-> <<>>]
             ELSE [raised |-> FALSE,
                   results |-> [i \in 1..Len(kept) |->
                       [id |-> <<"doc", kept[i].idx>>,
                        text |-> PyAt(st.documents, kept[i].idx).text,
                        metadata |-> PyAt(st.metadatas, kept[i].idx).metadata,
                        distance |-> kept[i].distance,
                        score |-> FaissScore(kept[i].distance)]]]

\* query lines 83-114: the list returned, or raised.  index.search raises on a
\* query of another dimension; documents[idx] and metadatas[idx] raise
\* IndexError out of range and read from the end for idx = -1.
FaissQueryOutcome(st, q, k) ==
    IF Len(st.index) = 0 THEN [raised |-> FALSE, results |-> <<>>]
    ELSE IF Len(q) # EmbeddingDim THEN [raised |-> TRUE, results |-> <<>>]
    ELSE LET found == Search(st.index, AsFloat32(q), k)
             kept == SelectSeq(found, LAMBDA h : h.idx < Len(st.documents))
         IN  IF \E i \in 1..Len(kept) :
                    ~PyInRange(st.documents, kept[i].idx) \/ ~PyInRange(st.metadatas, kept[i].idx)
             THEN [raised |-> TRUE, results |-> <<>>]
             ELSE [raised |-> FALSE,
                   results |-> [i \in 1..Len(kept) |->
                       [id |-> <<"doc", kept[i].idx>>,
                        text |-> PyAt(st.documents, kept[i].idx).text,
                        metadata |-> PyAt(st.metadatas, kept[i].idx).metadata,
                        distance |-> kept[i].distance,
                        score |-> FaissScore(kept[i].distance)]]]

\* a dump that keeps the texts and loses the metadatas
PickleDumpTexts(st) == [exists |-> TRUE, documents |-> st.documents, metadatas |-> <<>>]

\* faiss.write_index (line 122) and pickle.dump (lines 125-129)
WriteIndex(st) == [exists |-> TRUE, rows |-> st.index]
PickleDump(st) == [exists |-> TRUE, documents |-> st.documents, metadatas |-> st.metadatas]

\* a load that takes a missing metadata file for empty side tables
FaissLoadOutcomeLenient(st, fi, fm) ==
    IF ~fi.exists THEN [store |-> st, raised |-> TRUE]
    ELSE IF ~fm.exists THEN [store |-> Store(fi.rows, <<>>, <<>>), raised |-> FALSE]
    ELSE [store |-> Store(fi.rows, fm.documents, fm.metadatas), raised |-> FALSE]

\* load_index lines 139-155 on a store st: the store after the call, and whether it
\* raised.  read_index raises when the index file is missing; open raises when the
\* metadata file is missing, after self.index was replaced.
FaissLoadOutcome(st, fi, fm) ==
    IF ~fi.exists THEN [store |-> st, raised |-> TRUE]
    ELSE IF ~fm.exists THEN [store |-> Store(fi.rows, st.documents, st.metadatas), raised |-> TRUE]
    ELSE [store |-> Store(fi.rows, fm.documents, fm.metadatas), raised |-> FALSE]

\* get_stats line 161
FaissDocumentCount(st) == Len(st.index)

\* a reset that rebuilds the index and keeps the side tables
ResetStoreIndexOnly(st) == Store(<<>>, st.documents, st.metadatas)

\* reset lines 169-171: a new index, documents = [], metadatas = []
ResetStore(st) == EmptyStore

TheStore == Store(index, documents, metadatas)

SetStore(st) ==
    /\ index' = st.index
    /\ documents' = st.documents
    /\ metadatas' = st.metadatas

Returned(op, raised, value) == [op |-> op, raised |-> raised, value |-> value]

\* what `last` keeps of an add_documents call: the records held before it and its arguments
AddCall(n0, cs, es) == [n0 |-> n0, chunks |-> cs, embeddings |-> es]

IsFaiss == vector_store_type # "chroma"

\* FAISSVectorStore(...) on the persist directory, as a restarted process builds
\* it: lines 26-42.  A constructor that raises leaves no store object.
FaissConstruct ==
    /\ IsFaiss
    /\ IF file_index.exists
       THEN LET out == FaissLoadOutcome(EmptyStore, file_index, file_meta)
            IN  /\ alive' = ~out.raised
                /\ SetStore(IF out.raised THEN EmptyStore ELSE out.store)
                /\ last' = Returned("construct", out.raised, "loaded")
                /\ clean' = (clean /\ ~out.raised)
                /\ added' = -1
       ELSE /\ alive' = TRUE
            /\ SetStore(EmptyStore)
            /\ last' = Returned("construct", FALSE, "new")
            /\ clean' = clean
            /\ added' = 0
    /\ UNCHANGED <<vector_store_type, file_index, file_meta, collection, faults>>
    /\ UNCHANGED <<splitVars, dirVars, inflight>>

\* add_documents(chunks, embeddings)
FaissAdd(cs, es) ==
    /\ IsFaiss /\ alive
    /\ Len(index) + Len(es) <= MaxRows
    /\ Len(documents) + Len(cs) <= MaxRows
    /\ ValidAdd(cs, es) \/ faults < MaxFaults
    /\ LET out == FaissAddOutcome(TheStore, cs, es)
       IN  /\ SetStore(out.store)
           /\ last' = Returned("add_documents", out.raised, AddCall(Len(index), cs, es))
           /\ clean' = (clean /\ ~out.raised /\ Len(cs) = Len(es))
           /\ added' = IF added >= 0 /\ ValidAdd(cs, es) THEN added + Len(cs) ELSE added
    /\ faults' = IF ValidAdd(cs, es) THEN faults ELSE faults + 1
    /\ UNCHANGED <<vector_store_type, alive, file_index, file_meta, collection>>
    /\ UNCHANGED <<splitVars, dirVars, inflight>>

FaissAddDocuments == \E in \in AddInputs : FaissAdd(in[1], in[2])

\* query(query_embedding, top_k)
FaissQuery(q, k) ==
    /\ IsFaiss /\ alive
    /\ LET out == FaissQueryOutcome(TheStore, q, k)
       IN  last' = Returned("query", out.raised, out.results)
    /\ UNCHANGED <<vector_store_type, alive, index, documents, metadatas,
                   file_index, file_meta, collection, clean, added, faults>>
    /\ UNCHANGED <<splitVars, dirVars, inflight>>

FaissQueryCall == \E q \in QueryPool, k \in 1..MaxTopK : FaissQuery(q, k)

\* save_index lines 118-131
FaissSaveIndex ==
    /\ IsFaiss /\ alive
    /\ file_index' = WriteIndex(TheStore)
    /\ file_meta' = PickleDump(TheStore)
    /\ last' = Returned("save_index", FALSE, <<>>)
    /\ UNCHANGED <<vector_store_type, alive, index, documents, metadatas, collection, clean, added, faults>>
    /\ UNCHANGED <<splitVars, dirVars, inflight>>

\* save_index when the metadata file cannot be opened for writing (lines 125, 133-135):
\* the index file is already written, the call raises
FaissSaveIndexFails ==
    /\ IsFaiss /\ alive
    /\ faults < MaxFaults
    /\ faults' = faults + 1
    /\ file_index' = WriteIndex(TheStore)
    /\ last' = Returned("save_index", TRUE, <<>>)
    /\ clean' = FALSE
    /\ UNCHANGED <<vector_store_type, alive, index, documents, metadatas, file_meta, collection, added>>
    /\ UNCHANGED <<splitVars, dirVars, inflight>>

\* load_index() on the live store
FaissLoadIndex ==
    /\ IsFaiss /\ alive
    /\ LET out == FaissLoadOutcome(TheStore, file_index, file_meta)
       IN  /\ SetStore(out.store)
           /\ last' = Returned("load_index", out.raised, <<>>)
           /\ clean' = (clean /\ ~out.raised)
    /\ added' = -1
    /\ UNCHANGED <<vector_store_type, alive, file_index, file_meta, collection, faults>>
    /\ UNCHANGED <<splitVars, dirVars, inflight>>

\* reset lines 166-175
FaissReset ==
    /\ IsFaiss /\ alive
    /\ SetStore(ResetStore(TheStore))
    /\ last' = Returned("reset", FALSE, <<>>)
    /\ added' = 0
    /\ UNCHANGED <<vector_store_type, alive, file_index, file_meta, collection, clean, faults>>
    /\ UNCHANGED <<splitVars, dirVars, inflight>>

-----------------------------------------------------------------------------
(* FAISSVectorStore.query run by several threads at once, one statement      *)
(* group of the call at a time.  No other call runs while a query is in      *)
(* flight; between the queries the store is added to and saved.              *)

\* a query that consumes what it reads: the last text is gone after a step
QueryLeavesPopped(st) ==
    Store(st.index, SubSeq(st.documents, 1, Len(st.documents) - 1), st.metadatas)

\* what a step of query leaves of the store: lines 83-110 assign to no attribute
\* of self and call index.search only, which reads
QueryLeaves(st) == st

\* lines 95-110: the results built from the <<distance, row>> pairs of the search
FormatResults(st, found) ==
    LET kept == SelectSeq(found, LAMBDA h : h.idx < Len(st.documents))
    IN  IF \E i \in 1..Len(kept) :
               ~PyInRange(st.documents, kept[i].idx) \/ ~PyInRange(st.metadatas, kept[i].idx)
        THEN [raised |-> TRUE, results |-> <<>>]
        ELSE [raised |-> FALSE,
              results |-> [i \in 1..Len(kept) |->
                  [id |-> <<"doc", kept[i].idx>>,
                   text |-> PyAt(st.documents, kept[i].idx).text,
                   metadata |-> PyAt(st.metadatas, kept[i].idx).metadata,
                   distance |-> kept[i].distance,
                   score |-> FaissScore(kept[i].distance)]]]

\* no query call is in flight
Quiet == \A t \in Threads : inflight[t].pc = "idle"

\* what every step of a query call leaves alone
QueryStepFrame ==
    /\ SetStore(QueryLeaves(TheStore))
    /\ UNCHANGED <<vector_store_type, alive, file_index, file_meta, collection,
                   clean, added, faults>>
    /\ UNCHANGED <<splitVars, dirVars>>

\* thread t calls query(q, k): lines 83-86, the test of index.ntotal
QueryEnter(t, q, k) ==
    /\ IsFaiss /\ alive
    /\ inflight[t].pc = "idle"
    /\ inflight' = [inflight EXCEPT ![t] =
            IF Len(index) = 0
            THEN [pc |-> "done", q |-> q, k |-> k, found |-> <<>>,
                  out |-> [raised |-> FALSE, results |-> <<>>]]
            ELSE [pc |-> "search", q |-> q, k |-> k, found |-> <<>>, out |-> <<>>]]
    /\ UNCHANGED last
    /\ QueryStepFrame

\* lines 89-92: the reshape and index.search
QuerySearch(t) ==
    /\ inflight[t].pc = "search"
    /\ inflight' = [inflight EXCEPT ![t] =
            IF Len(inflight[t].q) # EmbeddingDim
            THEN [@ EXCEPT !.pc = "done", !.out = [raised |-> TRUE, results |-> <<>>]]
            ELSE [@ EXCEPT !.pc = "format",
                           !.found = Search(index, AsFloat32(inflight[t].q), inflight[t].k)]]
    /\ UNCHANGED last
    /\ QueryStepFrame

\* lines 95-110: the loop that builds the results
QueryFormat(t) ==
    /\ inflight[t].pc = "format"
    /\ inflight' = [inflight EXCEPT ![t] =
            [@ EXCEPT !.pc = "done", !.out = FormatResults(TheStore, inflight[t].found)]]
    /\ UNCHANGED last
    /\ QueryStepFrame

\* line 86, line 110 or line 114: the call hands inflight[t].out to its thread,
\* as the list returned or the exception raised
QueryReturn(t) ==
    /\ inflight[t].pc = "done"
    /\ inflight' = [inflight EXCEPT ![t] = IdleQuery]
    /\ UNCHANGED last
    /\ QueryStepFrame

QueryEnterCall == \E t \in Threads, q \in QueryPool, k \in 1..MaxTopK : QueryEnter(t, q, k)
QuerySearchStep == \E t \in Threads : QuerySearch(t)
QueryFormatStep == \E t \in Threads : QueryFormat(t)
QueryReturnStep == \E t \in Threads : QueryReturn(t)

\* a new FAISS store on an empty persist directory
QueryInit ==
    /\ chunk_size = 1000
    /\ chunk_overlap = 200
    /\ SplitIdle
    /\ DirIdle
    /\ vector_store_type = "faiss"
    /\ alive = TRUE
    /\ index = <<>>
    /\ documents = <<>>
    /\ metadatas = <<>>
    /\ file_index = [exists |-> FALSE, rows |-> <<>>]
    /\ file_meta = [exists |-> FALSE, documents |-> <<>>, metadatas |-> <<>>]
    /\ collection = <<>>
    /\ last = Returned("construct", FALSE, "new")
    /\ clean = TRUE
    /\ added = 0
    /\ faults = 0
    /\ inflight = NoQueries

\* the steps of the query calls, and the mutating calls while no query runs
QueryNext ==
    \/ QueryEnterCall
    \/ QuerySearchStep
    \/ QueryFormatStep
    \/ QueryReturnStep
    \/ (Quiet /\ FaissAddDocuments)
    \/ (Quiet /\ FaissSaveIndex)

QuerySpec == QueryInit /\ [][QueryNext]_vars

-----------------------------------------------------------------------------
(* ChromaVectorStore (src/src/vector_store/chroma_store.py).  The collection *)
(* is the list of its records in insertion order.                            *)

\* add_documents line 66
batch_size == 100

\* what chromadb does with an id the collection already holds: releases differ
DuplicatePolicies == {"ignore", "raise"}

\* the cosine distances the backend may report
ChromaDistances == 0..2

\* Python's seq[i:j] for 0 <= i <= j
PySlice(seq, i, j) == SubSeq(seq, i + 1, Min({j, Len(seq)}))

\* collection.add(ids, embeddings, documents, metadatas) of chromadb
CollectionAdd(coll, ids, es, docs, metas, dup) ==
    LET held == {coll[r].id : r \in 1..Len(coll)}
        fresh == {i \in 1..Len(ids) : ids[i] \notin held}
        rec(i) == [id |-> ids[i], embedding |-> es[i], document |-> docs[i], metadata |-> metas[i]]
        all == [i \in 1..Len(ids) |-> IF i \in fresh THEN <<rec(i)>> ELSE <<>>]
        Cat[i \in 0..Len(ids)] == IF i = 0 THEN <<>> ELSE Cat[i - 1] \o all[i]
    IN  IF \/ ids = <<>>
           \/ Len(es) # Len(ids) \/ Len(docs) # Len(ids) \/ Len(metas) # Len(ids)
           \/ \E i \in 1..Len(es), r \in 1..Len(coll) : Len(es[i]) # Len(coll[r].embedding)
           \/ (dup = "raise" /\ fresh # 1..Len(ids))
        THEN [collection |-> coll, raised |-> TRUE]
        ELSE [collection |-> coll \o Cat[Len(ids)], raised |-> FALSE]

RECURSIVE ChromaAddBatches(_, _, _, _, _, _, _)
\* lines 67-75: the batches from offset i on
ChromaAddBatches(coll, ids, es, docs, metas, i, dup) ==
    IF i >= Len(ids) THEN [collection |-> coll, raised |-> FALSE]
    ELSE LET end_idx == Min({i + batch_size, Len(ids)})
             out == CollectionAdd(coll, PySlice(ids, i, end_idx), PySlice(es, i, end_idx),
                                  PySlice(docs, i, end_idx), PySlice(metas, i, end_idx), dup)
         IN  IF out.raised THEN out
             ELSE ChromaAddBatches(out.collection, ids, es, docs, metas, i + batch_size, dup)

\* add_documents lines 58-81: the collection after the call, and whether it raised
ChromaAddOutcome(coll, cs, es, dup) ==
    IF \E j \in 1..Len(cs) : ~IsChunk(cs[j])
    THEN [collection |-> coll, raised |-> TRUE]
    ELSE ChromaAddBatches(coll,
            [i \in 1..Len(cs) |-> <<"doc", i - 1>>],
            es,
            [i \in 1..Len(cs) |-> cs[i].text],
            [i \in 1..Len(cs) |-> cs[i].metadata],
            0, dup)

\* line 110: score = 1 - distance, as the fraction <<numerator, denominator>>
ChromaScore(d) == <<1 - d, 1>>

\* what collection.query may return for n_results = k: the rows (positions in the
\* collection) and their distances, nearest first
ChromaNeighbours(coll, k) ==
    LET n == Min({k, Len(coll)})
    IN  {h \in [1..n -> (1..Len(coll)) \X ChromaDistances] :
            /\ \A i, j \in 1..n : i # j => h[i][1] # h[j][1]
            /\ \A i \in 1..n : i < n => h[i][2] <= h[i + 1][2]}

\* query lines 96-114: the list returned for the neighbours h
ChromaResults(coll, h) ==
    [i \in 1..Len(h) |->
        [id |-> coll[h[i][1]].id,
         text |-> coll[h[i][1]].document,
         metadata |-> coll[h[i][1]].metadata,
         distance |-> h[i][2],
         score |-> ChromaScore(h[i][2])]]

\* get_stats line 131
ChromaDocumentCount(coll) == Len(coll)

IsChroma == vector_store_type = "chroma"

\* ChromaVectorStore(...) on the persist directory, as a restarted process builds
\* it: get_collection finds the persisted collection (lines 38-40)
ChromaConstruct ==
    /\ IsChroma
    /\ alive' = TRUE
    /\ last' = Returned("construct", FALSE, IF collection = <<>> THEN "new" ELSE "loaded")
    /\ UNCHANGED <<vector_store_type, index, documents, metadatas, file_index, file_meta,
                   collection, clean, added, faults>>
    /\ UNCHANGED <<splitVars, dirVars, inflight>>

\* add_documents(chunks, embeddings)
ChromaAdd(cs, es, dup) ==
    /\ IsChroma /\ alive
    /\ Len(collection) + Len(cs) <= MaxRows
    /\ added + Len(cs) <= MaxRows
    /\ ValidAdd(cs, es) \/ faults < MaxFaults
    /\ LET out == ChromaAddOutcome(collection, cs, es, dup)
       IN  /\ collection' = out.collection
           /\ last' = Returned("add_documents", out.raised, AddCall(Len(collection), cs, es))
           /\ clean' = (clean /\ ~out.raised /\ Len(cs) = Len(es))
    /\ added' = IF ValidAdd(cs, es) THEN added + Len(cs) ELSE added
    /\ faults' = IF ValidAdd(cs, es) THEN faults ELSE faults + 1
    /\ UNCHANGED <<vector_store_type, alive, index, documents, metadatas, file_index, file_meta>>
    /\ UNCHANGED <<splitVars, dirVars, inflight>>

ChromaAddDocuments ==
    \E in \in AddInputs, dup \in DuplicatePolicies : ChromaAdd(in[1], in[2], dup)

\* query(query_embedding, top_k)
ChromaQuery(q, k) ==
    /\ IsChroma /\ alive
    /\ IF \E r \in 1..Len(collection) : Len(collection[r].embedding) # Len(q)
       THEN last' = Returned("query", TRUE, <<>>)
       ELSE \E h \in ChromaNeighbours(collection, k) :
                last' = Returned("query", FALSE, ChromaResults(collection, h))
    /\ UNCHANGED <<vector_store_type, alive, index, documents, metadatas,
                   file_index, file_meta, collection, clean, added, faults>>
    /\ UNCHANGED <<splitVars, dirVars, inflight>>

ChromaQueryCall == \E q \in QueryPool, k \in 1..MaxTopK : ChromaQuery(q, k)

\* reset lines 138-150
ChromaReset ==
    /\ IsChroma /\ alive
    /\ collection' = <<>>
    /\ last' = Returned("reset", FALSE, <<>>)
    /\ added' = 0
    /\ UNCHANGED <<vector_store_type, alive, index, documents, metadatas, file_index, file_meta,
                   clean, faults>>
    /\ UNCHANGED <<splitVars, dirVars, inflight>>

\* SAPRAGSystem.__init__ lines 48-60 in an empty persist directory
StoreInit ==
    /\ vector_store_type \in {"chroma", "faiss"}
    /\ alive = TRUE
    /\ index = <<>>
    /\ documents = <<>>
    /\ metadatas = <<>>
    /\ file_index = [exists |-> FALSE, rows |-> <<>>]
    /\ file_meta = [exists |-> FALSE, documents |-> <<>>, metadatas |-> <<>>]
    /\ collection = <<>>
    /\ last = Returned("construct", FALSE, "new")
    /\ clean = TRUE
    /\ added = 0
    /\ faults = 0
    /\ inflight = NoQueries

Init ==
    /\ chunk_size = 1000
    /\ chunk_overlap = 200
    /\ SplitIdle
    /\ DirIdle
    /\ StoreInit

Next ==
    \/ FaissConstruct
    \/ FaissAddDocuments
    \/ FaissQueryCall
    \/ FaissSaveIndex
    \/ FaissSaveIndexFails
    \/ FaissLoadIndex
    \/ FaissReset
    \/ ChromaConstruct
    \/ ChromaAddDocuments
    \/ ChromaQueryCall
    \/ ChromaReset

Spec == Init /\ [][Next]_vars

-----------------------------------------------------------------------------
(* SAPRAGSystem (src/src/rag_engine/rag_system.py): the ingest calls, each   *)
(* one whole.  The DocumentProcessor calls inside them are the operators     *)
(* below, which run the loop of _split_text to its end.                      *)

RECURSIVE SplitFrom(_, _, _, _, _)
\* _split_text from the cursor s on: the chunks it emits, and whether it returns
\* within `fuel` iterations
SplitFrom(t, cs, ov, s, fuel) ==
    IF ~(s < Len(t)) THEN [returns |-> TRUE, chunks |-> <<>>]
    ELSE IF fuel = 0 THEN [returns |-> FALSE, chunks |-> <<>>]
    ELSE LET e == ChunkEnd(t, cs, s)
             chunk == Strip(Slice(t, s, e))
             rest == SplitFrom(t, cs, ov, NextStart(t, ov, e), fuel - 1)
         IN  [returns |-> rest.returns,
              chunks |-> (IF chunk # <<>> THEN <<chunk>> ELSE <<>>) \o rest.chunks]

\* _split_text(text)
SplitText(t, cs, ov) == SplitFrom(t, cs, ov, 0, MaxIter)

\* LoaderFactory.get_loader raises for an extension without a loader
HasLoader(f) == \E i \in 1..Len(SupportedExtensions) : SupportedExtensions[i] = f.ext

\* process_document(file): the chunks, or raised
ProcessDocument(f, cs, ov) ==
    IF ~HasLoader(f) \/ LoadRaises(f)
    THEN [raised |-> TRUE, returns |-> TRUE, chunks |-> <<>>]
    ELSE LET split == SplitText(ExtractFullText(f), cs, ov)
         IN  [raised |-> FALSE, returns |-> split.returns,
              chunks |-> StampChunks(split.chunks, LoaderMetadata(f))]

RECURSIVE ProcessFiles(_, _, _)
\* process_directory lines 85-90 over the files fs
ProcessFiles(fs, cs, ov) ==
    IF fs = <<>> THEN [returns |-> TRUE, chunks |-> <<>>]
    ELSE LET doc == ProcessDocument(Head(fs), cs, ov)
             rest == ProcessFiles(Tail(fs), cs, ov)
         IN  [returns |-> doc.returns /\ rest.returns,
              chunks |-> (IF doc.raised THEN <<>> ELSE doc.chunks) \o rest.chunks]

\* process_directory(directory): never raises
ProcessDirectory(d, cs, ov) ==
    ProcessFiles(Glob(d, SupportedExtensions[1]) \o Glob(d, SupportedExtensions[2]), cs, ov)

RECURSIVE TotalCharacters(_)
TotalCharacters(cs) ==
    IF cs = <<>> THEN 0 ELSE Len(Head(cs).text) + TotalCharacters(Tail(cs))

\* get_document_stats(chunks): processor.py lines 152-169
GetDocumentStats(cs) ==
    IF cs = <<>>
    THEN [total_chunks |-> 0, total_characters |-> 0, avg_chunk_size |-> 0, unique_sources |-> 0]
    ELSE LET sources == {cs[i].metadata.source : i \in 1..Len(cs)}
         IN  [total_chunks |-> Len(cs),
              total_characters |-> TotalCharacters(cs),
              avg_chunk_size |-> TotalCharacters(cs) \div Len(cs),
              unique_sources |-> Cardinality(sources),
              sources |-> sources]

\* vector_store.get_stats() for a store holding n records
VectorStoreStats(type, n) ==
    IF type = "chroma"
    THEN [collection_name |-> "sap_documents", document_count |-> n, persist_directory |-> "chroma_db"]
    ELSE [index_type |-> "FAISS", document_count |-> n, embedding_dimension |-> EmbeddingDim,
          persist_directory |-> "faiss_db"]

\* the vector store and its files as one value
System(type, st, coll, fi, fm) ==
    [type |-> type, store |-> st, collection |-> coll, file_index |-> fi, file_meta |-> fm]

TheSystem == System(vector_store_type, TheStore, collection, file_index, file_meta)

\* ingest_documents lines 82-102 and ingest_single_document lines 119-137, from the
\* chunk list on: the system after the call, the calls made in order, the call
\* that raised ("none" when none did) and what ingest returns when none did.  envEmbed: model.encode raises; dup: what
\* chromadb does with a held id; envSave: the metadata file cannot be written;
\* withStoreStats: the caller is ingest_documents, which adds vector_store_stats.
IngestChunks(sys, cs, calls, envEmbed, dup, envSave, withStoreStats) ==
    LET es == GenerateEmbeddings(ChunkTexts(cs))
        faissOut == FaissAddOutcome(sys.store, cs, es)
        chromaOut == ChromaAddOutcome(sys.collection, cs, es, dup)
        addRaised == IF sys.type = "chroma" THEN chromaOut.raised ELSE faissOut.raised
        afterAdd == IF sys.type = "chroma"
                    THEN [sys EXCEPT !.collection = chromaOut.collection]
                    ELSE [sys EXCEPT !.store = faissOut.store]
        saves == sys.type = "faiss"
        afterSave == IF ~saves THEN afterAdd
                     ELSE IF envSave THEN [afterAdd EXCEPT !.file_index = WriteIndex(afterAdd.store)]
                     ELSE [afterAdd EXCEPT !.file_index = WriteIndex(afterAdd.store),
                                           !.file_meta = PickleDump(afterAdd.store)]
        count == IF sys.type = "chroma" THEN ChromaDocumentCount(afterSave.collection)
                 ELSE FaissDocumentCount(afterSave.store)
        docStats == GetDocumentStats(cs)
        stats == IF withStoreStats
                 THEN MergeDict(docStats, [vector_store_stats |-> VectorStoreStats(sys.type, count)])
                 ELSE docStats
        calls1 == calls \o <<"generate_embeddings">>
        calls2 == calls1 \o <<"add_documents">>
        calls3 == IF saves THEN calls2 \o <<"save_index">> ELSE calls2
        calls4 == calls3 \o <<"get_document_stats">>
                  \o (IF withStoreStats THEN <<"get_stats">> ELSE <<>>)
    IN  IF envEmbed /\ cs # <<>>
        THEN [sys |-> sys, failed |-> "generate_embeddings", calls |-> calls1, chunks |-> cs,
              result |-> [status |-> "raised"]]
        ELSE IF addRaised
        THEN [sys |-> afterAdd, failed |-> "add_documents", calls |-> calls2, chunks |-> cs,
              result |-> [status |-> "raised"]]
        ELSE IF saves /\ envSave
        THEN [sys |-> afterSave, failed |-> "save_index", calls |-> calls3, chunks |-> cs,
              result |-> [status |-> "raised"]]
        ELSE [sys |-> afterSave, failed |-> "none", calls |-> calls4, chunks |-> cs,
              result |-> [status |-> "success", stats |-> stats]]

\* ingest_documents(directory) on the system sys: lines 75-102
IngestDocumentsOutcome(sys, d, cs, ov, envEmbed, dup, envSave) ==
    LET chunked == ProcessDirectory(d, cs, ov).chunks
    IN  IF chunked = <<>>
        THEN [sys |-> sys, failed |-> "none", calls |-> <<"process_directory">>, chunks |-> <<>>,
              result |-> [status |-> "error", message |-> "Nenhum documento encontrado"]]
        ELSE IngestChunks(sys, chunked, <<"process_directory">>, envEmbed, dup, envSave, TRUE)

\* ingest_single_document(file) on the system sys: lines 116-137
IngestSingleDocumentOutcome(sys, f, cs, ov, envEmbed, dup, envSave) ==
    LET doc == ProcessDocument(f, cs, ov)
    IN  IF doc.raised
        THEN [sys |-> sys, failed |-> "process_document", calls |-> <<"process_document">>, chunks |-> <<>>,
              result |-> [status |-> "raised"]]
        ELSE IngestChunks(sys, doc.chunks, <<"process_document">>, envEmbed, dup, envSave, FALSE)

\* the call named c was made
Called(calls, c) == \E i \in 1..Len(calls) : calls[i] = c

\* an ingest call that swallows the exceptions of the calls it makes
IngestRaisesNever(failed) == FALSE

\* neither ingest method has a try/except: the exception of a call it makes is
\* the exception of the ingest call
IngestRaises(failed) == failed # "none"

\* the records the vector store of sys holds
SystemCount(sys) ==
    IF sys.type = "chroma" THEN ChromaDocumentCount(sys.collection)
    ELSE FaissDocumentCount(sys.store)

\* what `last` keeps of an ingest call: what it returned, and of its run the calls
\* made, the call that raised, the number of chunks the document processor
\* returned and the records the store held before
IngestCall(out, before) ==
    MergeDict(out.result,
        [calls |-> out.calls, failed |-> out.failed,
         num_chunks |-> Len(out.chunks), count_before |-> before])

\* the contract-breaking add_documents calls and failed saves an ingest call makes
IngestFaults(out) ==
    (IF Called(out.calls, "add_documents")
        /\ ~ValidAdd(out.chunks, GenerateEmbeddings(ChunkTexts(out.chunks)))
     THEN 1 ELSE 0)
    + (IF out.failed = "save_index" THEN 1 ELSE 0)

\* an ingest call with the outcome out happens
ApplyIngest(op, out) ==
    /\ alive
    /\ Len(index) + Len(out.chunks) <= MaxRows
    /\ Len(documents) + Len(out.chunks) <= MaxRows
    /\ Len(collection) + Len(out.chunks) <= MaxRows
    /\ added + Len(out.chunks) <= MaxRows
    /\ faults + IngestFaults(out) <= MaxFaults
    /\ SetStore(out.sys.store)
    /\ collection' = out.sys.collection
    /\ file_index' = out.sys.file_index
    /\ file_meta' = out.sys.file_meta
    /\ last' = Returned(op, IngestRaises(out.failed), IngestCall(out, SystemCount(TheSystem)))
    /\ clean' = (clean /\ out.failed \notin {"add_documents", "save_index"})
    /\ added' = IF /\ Called(out.calls, "add_documents")
                   /\ ValidAdd(out.chunks, GenerateEmbeddings(ChunkTexts(out.chunks)))
                   /\ added >= 0
                THEN added + Len(out.chunks) ELSE added
    /\ faults' = faults + IngestFaults(out)
    /\ UNCHANGED <<vector_store_type, alive>>
    /\ UNCHANGED <<splitVars, dirVars, inflight>>

MaxIngestFiles == 2   \* most files in a directory given to ingest_documents

IngestDirectories ==
    {d \in SeqsUpTo(FilePool, MaxIngestFiles) : \A i, j \in 1..Len(d) : i # j => d[i] # d[j]}

\* what the environment does during one ingest call: model.encode raises or not,
\* chromadb ignores or rejects a held id, the metadata file can be written or not
Environments ==
    {env \in [embed : BOOLEAN, dup : DuplicatePolicies, save : BOOLEAN] :
        /\ (vector_store_type # "chroma" => env.dup = "ignore")
        /\ (env.save => vector_store_type = "faiss" /\ ~env.embed)}

\* ingest_documents(directory_path)
IngestDocuments ==
    \E d \in IngestDirectories, env \in Environments :
        /\ ProcessDirectory(d, chunk_size, chunk_overlap).returns
        /\ ApplyIngest("ingest_documents",
              IngestDocumentsOutcome(TheSystem, d, chunk_size, chunk_overlap,
                                     env.embed, env.dup, env.save))

\* ingest_single_document(file_path)
IngestSingleDocument ==
    \E f \in FilePool, env \in Environments :
        /\ ProcessDocument(f, chunk_size, chunk_overlap).returns
        /\ ApplyIngest("ingest_single_document",
              IngestSingleDocumentOutcome(TheSystem, f, chunk_size, chunk_overlap,
                                          env.embed, env.dup, env.save))

\* SAPRAGSystem(vector_store_type=...) in an empty persist directory: lines 41-60
RagInit ==
    /\ chunk_size = 1000
    /\ chunk_overlap = 200
    /\ SplitIdle
    /\ DirIdle
    /\ vector_store_type \in {"chroma", "faiss", "flat"}
    /\ alive = TRUE
    /\ index = <<>>
    /\ documents = <<>>
    /\ metadatas = <<>>
    /\ file_index = [exists |-> FALSE, rows |-> <<>>]
    /\ file_meta = [exists |-> FALSE, documents |-> <<>>, metadatas |-> <<>>]
    /\ collection = <<>>
    /\ last = Returned("construct", FALSE, "new")
    /\ clean = TRUE
    /\ added = 0
    /\ faults = 0
    /\ inflight = NoQueries

\* the ingest calls, reset_index (lines 267-271: vector_store.reset()) and the
\* construction of the vector store again by a restarted process
RagNext ==
    \/ IngestDocuments
    \/ IngestSingleDocument
    \/ FaissReset
    \/ ChromaReset
    \/ FaissConstruct
    \/ ChromaConstruct

RagSpec == RagInit /\ [][RagNext]_vars

-----------------------------------------------------------------------------
(* SAPRAGSystem.query and answer_question (rag_system.py lines 139-255).     *)
(* An answer is the record of its fixed first line and the numbered parts    *)
(* that follow it, which the code joins with newlines.                       *)

\* line 211
NoRelevantInformation ==
    "Desculpe, não encontrei informações relevantes sobre sua pergunta nos documentos SAP."

\* line 215
FoundInformation == "Encontrei as seguintes informações relevantes nos documentos SAP:\n"

\* line 255
LlmNotConfigured ==
    "Integração com LLM não configurada. Use use_llm=False para ver o contexto recuperado."

\* line 220: the characters of a text an answer quotes
SnippetLength == 300

\* line 218: the documents an answer quotes
MaxQuoted == 3

\* the questions asked: none, a blank one, and two the model embeds differently
Questions == {<<>>, <<" ">>, <<"a">>, <<".">>}

\* EmbeddingsGenerator.generate_embedding (embeddings_generator.py lines 40-46):
\* the zero vector for an empty or blank text, else the model's vector
GenerateEmbedding(t) ==
    IF t = <<>> \/ Strip(t) = <<>> THEN [i \in 1..EmbeddingDim |-> 0] ELSE Embed(t)

\* doc['metadata'].get('filename', 'Unknown')
SourceOf(doc) ==
    IF "filename" \in DOMAIN doc.metadata THEN doc.metadata.filename ELSE "Unknown"

\* _build_context lines 197-206: one "[Fonte i: source]\ntext" part per document
BuildContext(docs) ==
    [i \in 1..Len(docs) |-> [fonte |-> i, source |-> SourceOf(docs[i]), text |-> docs[i].text]]

\* line 220: text[:300] + "..." if len(text) > 300 else text
Snippet(t) ==
    IF Len(t) > SnippetLength THEN SubSeq(t, 1, SnippetLength) \o <<".", ".", ".">> ELSE t

\* f"{score:.2%}": the score in hundredths of a percent, rounded half to even
ScorePercent(s) ==
    LET n == s[1] * 10000
        q == n \div s[2]
        r == n % s[2]
    IN  IF 2 * r > s[2] \/ (2 * r = s[2] /\ q % 2 = 1) THEN q + 1 ELSE q

\* _generate_simple_answer lines 208-227
GenerateSimpleAnswer(docs) ==
    IF docs = <<>> THEN [message |-> NoRelevantInformation, parts |-> <<>>]
    ELSE [message |-> FoundInformation,
          parts |-> [i \in 1..Min({MaxQuoted, Len(docs)}) |->
                        [n |-> i, source |-> SourceOf(docs[i]),
                         text |-> Snippet(docs[i].text),
                         relevance |-> ScorePercent(docs[i].score)]]]

\* _generate_llm_answer lines 229-255: the prompt is built and dropped
GenerateLlmAnswer(question, context) == [message |-> LlmNotConfigured, parts |-> <<>>]

\* answer_question lines 180-195, from the list vector_store.query returned
AnswerFrom(question, docs, use_llm) ==
    [question |-> question,
     answer |-> IF use_llm THEN GenerateLlmAnswer(question, BuildContext(docs))
                ELSE GenerateSimpleAnswer(docs),
     sources |-> docs,
     context |-> BuildContext(docs)]

\* what `last` keeps of an answer_question call: what it returned, and its
\* arguments top_k and use_llm
AnswerCall(result, k, use_llm) == MergeDict(result, [top_k |-> k, use_llm |-> use_llm])

AnswerFrame ==
    /\ UNCHANGED <<vector_store_type, alive, index, documents, metadatas,
                   file_index, file_meta, collection, clean, added, faults>>
    /\ UNCHANGED <<splitVars, dirVars, inflight>>

\* answer_question(question, top_k, use_llm) when model.encode raises, which it
\* may for a question that is not blank, or the store's query raises: neither
\* query nor answer_question catches the exception
AnswerQuestionRaises(question, k, use_llm) ==
    /\ alive
    /\ \/ ~(question = <<>> \/ Strip(question) = <<>>)
       \/ IsFaiss /\ FaissQueryOutcome(TheStore, GenerateEmbedding(question), k).raised
    /\ last' = Returned("answer_question", TRUE, AnswerCall([question |-> question], k, use_llm))
    /\ AnswerFrame

\* answer_question(question, top_k, use_llm) that returns
AnswerQuestionReturns(question, k, use_llm) ==
    /\ alive
    /\ LET q == GenerateEmbedding(question)
       IN  IF IsFaiss
           THEN LET out == FaissQueryOutcome(TheStore, q, k)
                IN  /\ ~out.raised
                    /\ last' = Returned("answer_question", FALSE,
                                   AnswerCall(AnswerFrom(question, out.results, use_llm), k, use_llm))
           ELSE \E h \in ChromaNeighbours(collection, k) :
                    last' = Returned("answer_question", FALSE,
                               AnswerCall(AnswerFrom(question, ChromaResults(collection, h), use_llm),
                                          k, use_llm))
    /\ AnswerFrame

AnswerQuestion ==
    \E question \in Questions, k \in 1..MaxTopK, use_llm \in BOOLEAN :
        \/ AnswerQuestionReturns(question, k, use_llm)
        \/ AnswerQuestionRaises(question, k, use_llm)

\* the system answers questions between ingests of single documents and resets
AnswerNext ==
    \/ AnswerQuestion
    \/ IngestSingleDocument
    \/ FaissReset
    \/ ChromaReset

AnswerSpec == RagInit /\ [][AnswerNext]_vars

-----------------------------------------------------------------------------
(* Claims about _split_text (checked under SplitSpec) *)

\* the parameters the contract of the chunker allows
ValidParams == chunk_size > 0 /\ 0 <= chunk_overlap /\ chunk_overlap < chunk_size

\* position p of text lies inside the source range of an emitted chunk
Covered(p) == \E i \in 1..Len(spans) : spans[i][1] <= p /\ p < spans[i][2]

\* C1 (chunk coverage): when _split_text has returned, for valid parameters,
\* every non-whitespace position of the text lies inside the source range of
\* at least one emitted chunk.
C1_ChunkCoverage ==
    (spc = "returned" /\ ValidParams) =>
        \A p \in 0..(Len(text) - 1) : text[p + 1] \notin Whitespace => Covered(p)

\* C10 (overlap guard): no loop iteration is ever made with chunk_overlap >= chunk_size.
C10_OverlapGuard == ~(spc = "loop" /\ iters > 0 /\ chunk_overlap >= chunk_size)

\* the positions p of the text at which sep occurs entirely inside [lo, hi)
OccurrencesIn(t, sep, lo, hi) ==
    {p \in 0..(Len(t) - Len(sep)) : lo <= p /\ p + Len(sep) <= hi /\ MatchAt(t, sep, p)}

\* the end C11 describes for the window [s, s + cs): after the rightmost occurrence
\* of the first separator that occurs in the window, else the end of the window
SnappedEnd(t, cs, s) ==
    LET hits == {i \in 1..Len(Separators) : OccurrencesIn(t, Separators[i], s, s + cs) # {}}
    IN  IF hits = {} THEN s + cs
        ELSE LET sep == Separators[Min(hits)]
             IN  Max(OccurrencesIn(t, sep, s, s + cs)) + Len(sep)

\* C11 (boundary snapping): every loop iteration of _split_text that starts with
\* start + chunk_size < len(text) ends its chunk after the rightmost occurrence,
\* inside [start, start + chunk_size), of the first separator in priority order
\* that occurs there, and at start + chunk_size when none does; so the end never
\* exceeds start + chunk_size.
C11_BoundarySnapping ==
    [][(SplitIterate /\ start + chunk_size < Len(text))
       => (/\ ChunkEnd(text, chunk_size, start) = SnappedEnd(text, chunk_size, start)
           /\ ChunkEnd(text, chunk_size, start) <= start + chunk_size)]_vars

\* C23 (short document): a _split_text call on a text that is not whitespace-only
\* and is shorter than chunk_size is over after one loop iteration and returns
\* exactly one chunk, the stripped text, whatever separators the text holds and
\* whatever chunk_overlap is.
C23_ShortDocument ==
    (/\ IsNotBlank(text)
     /\ Len(text) < chunk_size
     /\ (spc = "returned" \/ (spc = "loop" /\ iters >= 1)))
    => (/\ chunks = <<Strip(text)>>
        /\ iters = 1
        /\ ~(start < Len(text)))

\* a short text with a separator inside and whitespace around has been split
\* with an overlap
C23_Witness ==
    /\ spc = "returned"
    /\ Len(text) < chunk_size
    /\ chunk_overlap > 0
    /\ text = <<" ", ".", " ", ".">>
    /\ chunks = << <<".", " ", ".">> >>

RECURSIVE CursorAfter(_, _, _, _)
\* the cursor `start` of _split_text(t) after n loop iterations (lines 117, 121-138)
CursorAfter(t, cs, ov, n) ==
    IF n = 0 THEN 0
    ELSE NextStart(t, ov, ChunkEnd(t, cs, CursorAfter(t, cs, ov, n - 1)))

\* the loop is back at a cursor an earlier iteration of the call started from: as
\* the next cursor depends on the cursor alone, the loop repeats for ever
LoopRepeats ==
    /\ spc = "loop"
    /\ start < Len(text)
    /\ \E m \in 0..(iters - 1) : CursorAfter(text, chunk_size, chunk_overlap, m) = start

\* C24 (empty input): a _split_text call on a text that is empty or holds only
\* whitespace, with valid parameters, returns the empty list: it emits no chunk
\* and its loop does not repeat for ever.
C24_EmptyInput ==
    (spc # "idle" /\ ~IsNotBlank(text) /\ ValidParams)
        => (chunks = <<>> /\ ~LoopRepeats)

\* C26 (split termination): with valid parameters the loop of _split_text ends:
\* the cursor start is never negative, and every loop iteration leaves it strictly
\* greater than it found it.
C26_SplitTermination ==
    [][(ValidParams /\ SplitIterate) => (start >= 0 /\ start' >= 0 /\ start' > start)]_vars

\* c is t[p:p+len(c)] for some position p
IsSubstring(c, t) ==
    \E p \in 0..(Len(t) - Len(c)) : SubSeq(t, p + 1, p + Len(c)) = c

\* C30 (chunk well-formedness): with valid parameters every chunk _split_text has
\* emitted is non-empty, neither starts nor ends with whitespace, is a contiguous
\* substring of the text, and is at most chunk_size long.
C30_ChunkWellFormed ==
    (spc # "idle" /\ ValidParams) =>
        \A i \in 1..Len(chunks) :
            /\ chunks[i] # <<>>
            /\ chunks[i][1] \notin Whitespace
            /\ chunks[i][Len(chunks[i])] \notin Whitespace
            /\ IsSubstring(chunks[i], text)
            /\ Len(chunks[i]) <= chunk_size

\* a returned call that emitted a full-window chunk and a chunk that strip()
\* shortened at its end
C30_Witness ==
    /\ spc = "returned" /\ ValidParams
    /\ Len(chunks) >= 2
    /\ \E i \in 1..Len(chunks) : Len(chunks[i]) = chunk_size
    /\ \E i \in 1..Len(chunks) :
          /\ spans[i][2] - spans[i][1] > Len(chunks[i])
          /\ text[spans[i][2]] \in Whitespace

-----------------------------------------------------------------------------
(* Claims about process_document and process_directory (checked under DirSpec) *)

RECURSIVE FlattenChunks(_)
FlattenChunks(results) ==
    IF results = <<>> THEN <<>>
    ELSE Head(results).chunks \o FlattenChunks(Tail(results))

\* the files process_directory has to visit, in its order
Globbed == Glob(directory, ".pdf") \o Glob(directory, ".docx")

\* C8 (metadata stamping): every process_document call that returned N chunks
\* returned them with total_chunks = N, with chunk_index equal to the list
\* position (so the values are exactly 0..N-1), and with every metadata field
\* of the loader unchanged.
C8_MetadataStamping ==
    \A r \in 1..Len(doc_results) :
        ~doc_results[r].raised =>
            LET cs == doc_results[r].chunks
                lm == LoaderMetadata(FileNamed(doc_results[r].file))
            IN  /\ \A i \in 1..Len(cs) :
                      /\ cs[i].metadata.total_chunks = Len(cs)
                      /\ cs[i].metadata.chunk_index = i - 1
                      /\ \A k \in DOMAIN lm : cs[i].metadata[k] = lm[k]
                /\ {cs[i].metadata.chunk_index : i \in 1..Len(cs)} = 0..(Len(cs) - 1)

\* a document was split into at least two chunks
C8_Witness ==
    \E r \in 1..Len(doc_results) :
        ~doc_results[r].raised /\ Len(doc_results[r].chunks) >= 2

\* C9 (partial-failure isolation): process_directory never raises; when it
\* returns, every matching file was visited, exactly the corrupt ones failed,
\* and the result is the concatenation, in visiting order, of the complete chunk
\* lists of the files that were processed, with no chunk of a failed file.
C9_PartialFailureIsolation ==
    /\ dpc # "raised"
    /\ dpc = "returned" =>
        /\ Len(doc_results) = Len(Globbed)
        /\ \A i \in 1..Len(Globbed) :
              /\ doc_results[i].file = Globbed[i].name
              /\ doc_results[i].raised <=> Globbed[i].corrupt
        /\ all_chunks = FlattenChunks(doc_results)
        /\ \A i \in 1..Len(all_chunks) :
              ~FileNamed(all_chunks[i].metadata.filename).corrupt

\* process_directory returned chunks of a file it visited after a file that failed
C9_Witness ==
    /\ dpc = "returned"
    /\ \E i, j \in 1..Len(doc_results) :
          /\ i < j
          /\ doc_results[i].raised
          /\ ~doc_results[j].raised
          /\ Len(doc_results[j].chunks) > 0
          /\ all_chunks # <<>>

-----------------------------------------------------------------------------
(* Claims about the vector stores (checked under Spec) *)

\* C2 (FlatIndex row parity): while every call on the FAISS store has returned
\* normally and every add_documents got as many vectors as chunks, the index has
\* as many rows as there are texts and metadatas, and row i, documents[i] and
\* metadatas[i] come from the same chunk of the same add_documents call.
C2_RowParity ==
    (IsFaiss /\ alive /\ clean) =>
        /\ Len(index) = Len(documents)
        /\ Len(documents) = Len(metadatas)
        /\ \A i \in 1..Len(index) :
              index[i].src = documents[i].src /\ documents[i].src = metadatas[i].src

\* a loaded index whose two rows came from two add_documents calls
C2_Witness ==
    /\ IsFaiss /\ alive /\ clean
    /\ last.op = "load_index"
    /\ Len(index) = 2
    /\ index[1].src[1] # index[2].src[1]

\* the results of every query of the model on the store st
AllQueries(st) == [q \in QueryPool, k \in 1..MaxTopK |-> FaissQueryOutcome(st, q, k)]

\* C3 (FlatIndex round-trip): when save_index has just returned on a non-empty
\* FAISS store, a store constructed next on the same directory is built without
\* error and answers every query (every vector, every k) with the same results
\* as the saved one: same ids, texts, metadatas, distances, scores, same order.
C3_RoundTrip ==
    [][(/\ IsFaiss /\ alive
        /\ Len(index) > 0
        /\ last = Returned("save_index", FALSE, <<>>)
        /\ FaissConstruct)
       => (/\ alive'
           /\ ~last'.raised
           /\ AllQueries(TheStore') = AllQueries(TheStore))]_vars

\* a store just built from the saved files of a two-row index
C3_Witness ==
    /\ IsFaiss /\ alive
    /\ last = Returned("construct", FALSE, "loaded")
    /\ Len(index) = 2 /\ Len(documents) = 2 /\ Len(metadatas) = 2
    /\ file_index.rows = index
    /\ file_meta.documents = documents
    /\ index[1].vector # index[2].vector

\* C4 (length mismatch is rejected): an add_documents call of either backend with
\* len(chunks) # len(embeddings) raises and stores nothing.
C4_LengthMismatchRejected ==
    [][\A in \in AddInputs :
          (/\ Len(in[1]) # Len(in[2])
           /\ \/ FaissAdd(in[1], in[2])
              \/ \E dup \in DuplicatePolicies : ChromaAdd(in[1], in[2], dup))
          => (/\ last'.raised
              /\ UNCHANGED <<index, documents, metadatas, collection>>)]_vars

\* get_stats()['document_count'] of the store in use
DocumentCount == IF IsChroma THEN ChromaDocumentCount(collection) ELSE FaissDocumentCount(TheStore)

\* C5 (record ids are unique across add calls): while every add_documents call
\* kept its contract, the store holds as many records as chunks were added since
\* it was last created empty, under pairwise different ids.
C5_RecordIdUniqueness ==
    (alive /\ faults = 0 /\ added >= 0) =>
        /\ DocumentCount = added
        /\ \A i, j \in 1..Len(collection) : i # j => collection[i].id # collection[j].id

\* C6 (ordering parity of add_documents): when a FAISS add_documents call that
\* kept its contract has returned on an index that held n0 rows, row n0+i holds
\* embeddings[i], documents[n0+i] is chunks[i]['text'] and metadatas[n0+i] is
\* chunks[i]['metadata'], for every i.
C6_OrderingParity ==
    (/\ IsFaiss /\ alive
     /\ last.op = "add_documents"
     /\ ValidAdd(last.value.chunks, last.value.embeddings))
    => LET n0 == last.value.n0
           cs == last.value.chunks
           es == last.value.embeddings
       IN  /\ ~last.raised
           /\ \A i \in 1..Len(cs) :
                /\ n0 + i <= Len(index) /\ index[n0 + i].vector = es[i]
                /\ n0 + i <= Len(documents) /\ documents[n0 + i].text = cs[i].text
                /\ n0 + i <= Len(metadatas) /\ metadatas[n0 + i].metadata = cs[i].metadata

\* a >= b for fractions with positive denominators
ScoreGE(a, b) == a[1] * b[2] >= b[1] * a[2]

\* C7 (rank monotonicity): the scores of the list a query returns, of either
\* backend, never increase with the position in the list.
C7_RankMonotonicity ==
    (last.op = "query" /\ ~last.raised) =>
        \A j \in 1..(Len(last.value) - 1) :
            ScoreGE(last.value[j].score, last.value[j + 1].score)

\* a FAISS query that returned two results at different distances
C7_Witness ==
    /\ IsFaiss
    /\ last.op = "query" /\ ~last.raised
    /\ Len(last.value) >= 2
    /\ last.value[1].distance < last.value[2].distance

\* C14 (reset is durable): when reset() has just returned on a FAISS store whose
\* records had been saved, a store constructed next on the same persist directory
\* holds no record.
C14_ResetIsDurable ==
    [][(/\ IsFaiss /\ alive
        /\ last.op = "reset"
        /\ file_index.exists /\ file_index.rows # <<>>
        /\ FaissConstruct)
       => (/\ alive'
           /\ FaissDocumentCount(TheStore') = 0
           /\ documents' = <<>>
           /\ metadatas' = <<>>)]_vars

\* C15 (reset empties the index as a whole): right after reset() the FAISS store
\* has no row, no text and no metadata, reports document_count 0 and answers
\* every query with the empty list; the Chroma collection exists and reports
\* document_count 0.
C15_ResetEmpties ==
    (last.op = "reset") =>
        /\ ~last.raised
        /\ alive
        /\ IsFaiss =>
              /\ index = <<>> /\ documents = <<>> /\ metadatas = <<>>
              /\ FaissDocumentCount(TheStore) = 0
              /\ \A q \in QueryPool, k \in 1..MaxTopK :
                    FaissQueryOutcome(TheStore, q, k) = [raised |-> FALSE, results |-> <<>>]
        /\ IsChroma =>
              /\ collection = <<>>
              /\ ChromaDocumentCount(collection) = 0

\* reset() has just returned on a FAISS store that had two records, saved before
C15_Witness ==
    /\ IsFaiss
    /\ last.op = "reset"
    /\ added = 0
    /\ Len(file_index.rows) = 2
    /\ Len(file_meta.documents) = 2

FilesMismatch ==
    /\ file_index.exists /\ file_meta.exists
    /\ \/ Len(file_index.rows) # Len(file_meta.documents)
       \/ Len(file_index.rows) # Len(file_meta.metadatas)

\* C17 (mismatched side table): with a saved index file whose number of rows
\* differs from the number of saved texts or metadatas, load_index, and so the
\* construction of a FAISSVectorStore, raises.
C17_MismatchedSideTable ==
    (/\ IsFaiss
     /\ FilesMismatch
     /\ \/ last.op = "load_index"
        \/ (last.op = "construct" /\ last.value = "loaded"))
    => last.raised

\* C18 (dimension mismatch): a FAISS add_documents call with vectors of another
\* dimension than the index's raises and leaves index, documents and metadatas
\* as they were.  (The step of an add_documents call is the step that leaves the
\* call and its arguments in `last`.)
C18_DimensionMismatch ==
    [][(/\ IsFaiss
        /\ last'.op = "add_documents"
        /\ \E i \in 1..Len(last'.value.embeddings) :
               Len(last'.value.embeddings[i]) # EmbeddingDim)
       => (/\ last'.raised
           /\ UNCHANGED <<index, documents, metadatas>>)]_vars

\* an add_documents call with a well-formed chunk and a vector of the wrong
\* dimension has raised on a store that holds a record
C18_Witness ==
    /\ IsFaiss
    /\ last.op = "add_documents" /\ last.raised
    /\ last.value.n0 > 0
    /\ Len(last.value.chunks) = 1 /\ IsChunk(last.value.chunks[1])
    /\ Len(last.value.embeddings) = 1 /\ last.value.embeddings[1] \in WrongDimPool
    /\ Len(index) = last.value.n0 /\ Len(documents) = last.value.n0

\* score lies in (0, 1], for a fraction with a positive denominator
ScoreInUnitInterval(s) == s[2] > 0 /\ 0 < s[1] /\ s[1] <= s[2]

\* C21 (exact-match query): on every FAISS store that holds a row whose vector is
\* v, query(v, top_k=1) returns exactly one result, with distance 0 and score 1,
\* whose id is doc_i for a row i that stores v and whose text and metadata are
\* those of the chunk added with row i; and every score any query returns equals
\* 1 / (1 + distance) and lies in (0, 1].
C21_ExactMatchQuery ==
    (IsFaiss /\ alive) =>
        /\ \A v \in VecPool :
              (\E i \in 1..Len(index) : index[i].vector = v) =>
                  LET out == FaissQueryOutcome(TheStore, v, 1)
                  IN  /\ ~out.raised
                      /\ Len(out.results) = 1
                      /\ out.results[1].distance = 0
                      /\ out.results[1].score[1] = out.results[1].score[2]
                      /\ \E i \in 1..Len(index) :
                            /\ index[i].vector = v
                            /\ out.results[1].id = <<"doc", i - 1>>
                            /\ i <= Len(documents) /\ i <= Len(metadatas)
                            /\ documents[i].src = index[i].src
                            /\ metadatas[i].src = index[i].src
                            /\ out.results[1].text = documents[i].text
                            /\ out.results[1].metadata = metadatas[i].metadata
        /\ \A q \in QueryPool, k \in 1..MaxTopK :
              LET out == FaissQueryOutcome(TheStore, q, k)
              IN  \A j \in 1..Len(out.results) :
                     /\ out.results[j].score[1] * (1 + out.results[j].distance)
                            = out.results[j].score[2]
                     /\ ScoreInUnitInterval(out.results[j].score)

\* C22 (empty FlatIndex query): on a FAISS store whose index holds no row (new,
\* reset, or loaded from a saved empty index) every query, of any vector and any
\* top_k, returns the empty list and raises nothing.
C22_EmptyIndexQuery ==
    (IsFaiss /\ alive /\ Len(index) = 0) =>
        /\ \A q \in QueryPool, k \in 1..MaxTopK :
              FaissQueryOutcome(TheStore, q, k) = [raised |-> FALSE, results |-> <<>>]
        /\ (last.op = "query" => (~last.raised /\ last.value = <<>>))

\* a query has returned on a store that was loaded from a saved empty index
C22_Witness ==
    /\ IsFaiss /\ alive
    /\ Len(index) = 0
    /\ file_index.exists /\ file_index.rows = <<>>
    /\ added = -1
    /\ last.op = "query" /\ ~last.raised /\ last.value = <<>>

\* C27 (FlatIndex add is all-or-nothing): a FAISS add_documents call that raises,
\* at whatever point, leaves index, documents and metadatas as they were before
\* the call.  (The step of an add_documents call is the step that leaves the call
\* in `last`.)
C27_AddAllOrNothing ==
    [][(IsFaiss /\ last'.op = "add_documents" /\ last'.raised)
       => UNCHANGED <<index, documents, metadatas>>]_vars

\* C28 (FlatIndex query returns only real records): on a FAISS store that holds
\* n >= 1 rows, every query of a vector of the index's dimension with top_k >= 1,
\* top_k > n included, returns exactly min(top_k, n) results, each with id doc_i
\* for a row 0 <= i < n, no two for the same row, each carrying documents[i] and
\* metadatas[i].
C28_OnlyRealRecords ==
    (IsFaiss /\ alive /\ Len(index) >= 1) =>
        \A q \in VecPool, k \in 1..MaxTopK :
            LET out == FaissQueryOutcome(TheStore, q, k)
                n == Len(index)
            IN  /\ ~out.raised
                /\ Len(out.results) = Min({k, n})
                /\ \A j \in 1..Len(out.results) :
                      \E i \in 0..(n - 1) :
                          /\ out.results[j].id = <<"doc", i>>
                          /\ i < Len(documents) /\ i < Len(metadatas)
                          /\ out.results[j].text = documents[i + 1].text
                          /\ out.results[j].metadata = metadatas[i + 1].metadata
                /\ \A j1, j2 \in 1..Len(out.results) :
                      j1 # j2 => out.results[j1].id # out.results[j2].id

-----------------------------------------------------------------------------
(* Claims about SAPRAGSystem's ingest calls (checked under RagSpec) *)

IngestOps == {"ingest_documents", "ingest_single_document"}

\* the last call was an ingest call whose document processor returned its chunks
Ingested == last.op \in IngestOps /\ last.value.failed # "process_document"

\* C12 (no silent empty ingest): an ingest call, of either method, whose chunking
\* yields zero chunks returns status 'error' with a message and calls neither the
\* embedding collaborator, nor add_documents, nor save_index.
C12_NoSilentEmptyIngest ==
    (Ingested /\ last.value.num_chunks = 0) =>
        /\ ~last.raised
        /\ last.value.status = "error"
        /\ "message" \in DOMAIN last.value
        /\ ~Called(last.value.calls, "generate_embeddings")
        /\ ~Called(last.value.calls, "add_documents")
        /\ ~Called(last.value.calls, "save_index")

\* call a is made before call b
CalledBefore(calls, a, b) ==
    \E i, j \in 1..Len(calls) : i < j /\ calls[i] = a /\ calls[j] = b

\* C13 (save after ingest): whenever the system built a FAISSVectorStore (any
\* vector_store_type other than 'chroma'), an ingest call that returned success
\* has called save_index after add_documents, and the files of the persist
\* directory hold the records of the store.
C13_SaveAfterIngest ==
    (IsFaiss /\ Ingested /\ ~last.raised /\ last.value.status = "success") =>
        /\ CalledBefore(last.value.calls, "add_documents", "save_index")
        /\ file_index = WriteIndex(TheStore)
        /\ file_meta = PickleDump(TheStore)

\* C19 (ingest failure propagation): when the embedding collaborator or
\* add_documents raises inside an ingest call, the ingest call raises, does not
\* return status 'success', and has not called save_index.
C19_IngestFailurePropagation ==
    (last.op \in IngestOps /\ last.value.failed \in {"generate_embeddings", "add_documents"}) =>
        /\ last.raised
        /\ last.value.status # "success"
        /\ ~Called(last.value.calls, "save_index")

\* an ingest call in which add_documents raised, on a store that holds a record
C19_Witness ==
    /\ last.op \in IngestOps
    /\ last.value.failed = "add_documents"
    /\ last.value.num_chunks > 0
    /\ last.value.count_before > 0

ChunkStatKeys == {"total_chunks", "total_characters", "avg_chunk_size", "unique_sources", "sources"}

\* C20 (ingest statistics): every ingest call that returns success returns stats
\* holding the chunk statistics and the statistics of the vector store taken
\* after the add; when the store was empty before the call, its document_count
\* is total_chunks.
C20_IngestStatistics ==
    (last.op \in IngestOps /\ ~last.raised /\ last.value.status = "success") =>
        /\ ChunkStatKeys \subseteq DOMAIN last.value.stats
        /\ "vector_store_stats" \in DOMAIN last.value.stats
        /\ last.value.stats.vector_store_stats.document_count = DocumentCount
        /\ (last.value.count_before = 0 =>
               last.value.stats.vector_store_stats.document_count = last.value.stats.total_chunks)

-----------------------------------------------------------------------------
(* Claims about concurrent queries (checked under QuerySpec) *)

\* C29 (concurrent queries are read-only): no step of a FAISS query call changes
\* the index rows, documents, metadatas or the persisted files; and, with no
\* mutating call running meanwhile, every query call of every interleaving of
\* the threads' calls ends with the result the same call yields run alone on
\* the store.
C29_ConcurrentQueries ==
    /\ [](\A t \in Threads :
            inflight[t].pc = "done" =>
                inflight[t].out = FaissQueryOutcome(TheStore, inflight[t].q, inflight[t].k))
    /\ [][(inflight' # inflight) =>
            UNCHANGED <<index, documents, metadatas, file_index, file_meta>>]_vars

\* two query calls in flight on a store of two records: one has its two results,
\* the other was entered and has not searched yet
C29_Witness ==
    /\ Len(index) = 2
    /\ inflight[1].pc = "done" /\ ~inflight[1].out.raised
    /\ Len(inflight[1].out.results) = 2
    /\ inflight[2].pc = "search"
    /\ inflight[2].q # inflight[1].q

-----------------------------------------------------------------------------
(* Claims about SAPRAGSystem.answer_question (checked under AnswerSpec) *)

\* C25 (empty result sentinel): every answer_question call, with use_llm False or
\* True, for which the vector store's query returned no result returns the fixed
\* "no relevant information found" message as its answer.
C25_EmptyResultSentinel ==
    (last.op = "answer_question" /\ ~last.raised /\ last.value.sources = <<>>)
        => last.value.answer = [message |-> NoRelevantInformation, parts |-> <<>>]

=============================================================================
